---- MODULE Spec2Model ----
(***************************************************************************)
(* The reth backend of benchtop (benchtop/src/reth.rs): the read-through   *)
(* transaction RethTx (an in-memory HashedPostState over a cursor on the   *)
(* HashedAccounts table), the two table writers of UpdateWriter, and the   *)
(* commit sequence of RethDB::execute.                                     *)
(*                                                                         *)
(* The MDBX tables are modelled by their contents: HashedAccounts and      *)
(* AccountsTrie are maps from key to value, HashedStorages (a DupSort      *)
(* table) is a set of (address, slot, value) entries.  A write transaction *)
(* works on a private copy that replaces the committed tables at commit;   *)
(* a read transaction is a snapshot of the committed tables.               *)
(***************************************************************************)
EXTENDS Integers, Sequences, FiniteSets, TLC

\* ---------------------------------------------------------------- bounds

\* Longest value buffer a workload hands to write (at most U256Bytes: a
\* longer one panics in U256::from_be_slice).
MaxValueLen == 31
\* Storage values are 0..MaxSlotVal (0 is U256::ZERO).
MaxSlotVal == 2
\* Trie nodes (BranchNodeCompact bodies) are 1..MaxNode.
MaxNode == 2
\* Trie paths have at most MaxPathLen nibbles.
MaxPathLen == 2

\* ------------------------------------------------------ program constants

\* U256 is 32 bytes wide (to_be_bytes_vec yields 32 bytes).
U256Bytes == 32
\* read returns the last 8 bytes of the big-endian balance.
ReadBytes == 8
\* write builds every account with nonce 1.
WriteNonce == 1

\* ------------------------------------------------------------ value sets

\* Application keys handed to read / note_read / write.
Keys == {1, 2}

\* keccak256 on the application keys: an injective map into the ordered
\* 256-bit key space.  The order of the hashes is not the order of the keys.
keccak256(k) == Cardinality(Keys) + 1 - k

None == [tag |-> "None"]
Some(x) == [tag |-> "Some", val |-> x]

\* Value buffers of the workload: n bytes, all equal to b.
Bytes(n, b) == [i \in 1..n |-> b]
Values == {Bytes(1, 1), Bytes(ReadBytes, 1), Bytes(ReadBytes, 2),
           Bytes(MaxValueLen, 1)}

\* Hashed storage addresses and hashed slots of the HashedStorages table.
StorageAddrs == {1, 2}
Slots == {1, 2}
SlotVals == 0..MaxSlotVal

Nodes == 1..MaxNode
\* Nibble paths: the empty path and one path of each length 1..MaxPathLen,
\* chosen so that the lexicographic order is not the order of the lengths.
Path(n) == [i \in 1..n |-> MaxPathLen + 1 - n]
Paths == {Path(n) : n \in 0..MaxPathLen}

\* ------------------------------------------------------------ U256, bytes

\* U256::from_be_slice: the buffer, left-padded with zero bytes to 32 bytes.
from_be_slice(value) ==
    [i \in 1..U256Bytes |->
        IF i <= U256Bytes - Len(value) THEN 0
        ELSE value[i - (U256Bytes - Len(value))]]

\* Mutant of BalanceLow8: the first 8 bytes instead of the last 8.
BalanceHigh8(balance) == [i \in 1..ReadBytes |-> balance[i]]

\* balance.to_be_bytes_vec() followed by [len-8..]: the last 8 bytes.
BalanceLow8(balance) ==
    [i \in 1..ReadBytes |-> balance[U256Bytes - ReadBytes + i]]

\* ------------------------------------------------------------ ordered data

\* The elements of a finite set of integers in ascending order.
RECURSIVE SortedSeq(_)
SortedSeq(S) ==
    IF S = {} THEN <<>>
    ELSE LET m == CHOOSE x \in S : \A y \in S : x <= y
         IN <<m>> \o SortedSeq(S \ {m})

\* Nibbles::cmp: lexicographic order of nibble sequences (-1, 0, 1).
RECURSIVE NibblesCmp(_, _)
NibblesCmp(a, b) ==
    IF a = <<>> /\ b = <<>> THEN 0
    ELSE IF a = <<>> THEN -1
    ELSE IF b = <<>> THEN 1
    ELSE IF Head(a) < Head(b) THEN -1
    ELSE IF Head(a) > Head(b) THEN 1
    ELSE NibblesCmp(Tail(a), Tail(b))

\* A map without the entry at k.
MapRemove(f, k) == [x \in DOMAIN f \ {k} |-> f[x]]
\* A map with the entry at k set to v (inserted or replaced).
MapPut(f, k, v) == [x \in DOMAIN f \cup {k} |-> IF x = k THEN v ELSE f[x]]
EmptyMap == [x \in {} |-> 0]

\* ----------------------------------------------------- write_trie_updates

\* TrieUpdates as write_trie_updates reads it: account_nodes (path -> node)
\* and removed_nodes (set of paths).
TrieUpdateSets ==
    {[account_nodes |-> an, removed_nodes |-> rn] :
        an \in UNION {[D -> Nodes] : D \in SUBSET Paths}, rn \in SUBSET Paths}

\* TrieUpdates::is_empty
TrieUpdatesIsEmpty(tu) ==
    DOMAIN tu.account_nodes = {} /\ tu.removed_nodes = {}

\* Mutant of RemovedEntries: no filter, every removed node is kept.
RemovedEntriesUnfiltered(tu) ==
    {[key |-> n, node |-> None] : n \in tu.removed_nodes}

\* The removed nodes kept by the filter_map: those with no updated node.
RemovedEntries(tu) ==
    {[key |-> n, node |-> None] :
        n \in {r \in tu.removed_nodes : r \notin DOMAIN tu.account_nodes}}

\* The updated nodes, as (path, Some(node)).
UpdatedEntries(tu) ==
    {[key |-> n, node |-> Some(tu.account_nodes[n])] :
        n \in DOMAIN tu.account_nodes}

\* Mutant of MergedEntries: the filter on the wrong side, every removal is
\* kept and an updated node is dropped when its path is also removed.
MergedEntriesRemovalWins(tu) ==
    {[key |-> n, node |-> None] : n \in tu.removed_nodes}
    \cup {e \in UpdatedEntries(tu) : e.key \notin tu.removed_nodes}

\* The merged vector before the sort (as the collection of its entries).
MergedEntries(tu) == RemovedEntries(tu) \cup UpdatedEntries(tu)

\* sort_unstable_by(|a, b| a.0.cmp(b.0)): the entries by ascending path.
RECURSIVE SortByKey(_)
SortByKey(S) ==
    IF S = {} THEN <<>>
    ELSE LET m == CHOOSE x \in S : \A y \in S : NibblesCmp(x.key, y.key) <= 0
         IN <<m>> \o SortByKey(S \ {m})

\* Mutant of TrieApplyOne: the upsert without the is_empty test.
TrieApplyOneUpsertEmpty(acc, e) ==
    IF e.node.tag = "Some"
    THEN [table |-> MapPut(acc.table, e.key, e.node.val),
          num_entries |-> acc.num_entries + 1]
    ELSE [table |-> IF e.key \in DOMAIN acc.table
                    THEN MapRemove(acc.table, e.key) ELSE acc.table,
          num_entries |-> acc.num_entries + 1]

\* Mutant of TrieApplyOne: a removal counts only when a node was deleted.
TrieApplyOneCountDeleted(acc, e) ==
    IF e.node.tag = "Some"
    THEN IF e.key # <<>>
         THEN [table |-> MapPut(acc.table, e.key, e.node.val),
               num_entries |-> acc.num_entries + 1]
         ELSE acc
    ELSE IF e.key \in DOMAIN acc.table
         THEN [table |-> MapRemove(acc.table, e.key),
               num_entries |-> acc.num_entries + 1]
         ELSE acc

\* One iteration of the loop over account_updates, on (table, num_entries).
TrieApplyOne(acc, e) ==
    IF e.node.tag = "Some"
    THEN IF e.key # <<>>
         THEN [table |-> MapPut(acc.table, e.key, e.node.val),
               num_entries |-> acc.num_entries + 1]
         ELSE acc
    ELSE [table |-> IF e.key \in DOMAIN acc.table
                    THEN MapRemove(acc.table, e.key) ELSE acc.table,
          num_entries |-> acc.num_entries + 1]

RECURSIVE TrieApplyAll(_, _)
TrieApplyAll(acc, es) ==
    IF es = <<>> THEN acc
    ELSE TrieApplyAll(TrieApplyOne(acc, Head(es)), Tail(es))

\* write_trie_updates(tx, trie_updates): the AccountsTrie table afterwards
\* and the returned count.
WriteTrieUpdates(table, tu) ==
    IF TrieUpdatesIsEmpty(tu)
    THEN [table |-> table, num_entries |-> 0]
    ELSE TrieApplyAll([table |-> table, num_entries |-> 0],
                      SortByKey(MergedEntries(tu)))

\* ----------------------------------------------------- write_hashed_state

\* Account records: write only ever builds nonce 1, no bytecode hash.
Account(balance) ==
    [nonce |-> WriteNonce, bytecode_hash |-> None, balance |-> balance]

\* Mutant of AccountApplyOne: a tombstone deletes nothing.
AccountApplyOneKeepTombstoned(table, hashed_address, account) ==
    IF account.tag = "Some"
    THEN MapPut(table, hashed_address, account.val)
    ELSE table

\* Mutant of AccountApplyOne: a record is inserted only where none is
\* stored.
AccountApplyOneInsertOnly(table, hashed_address, account) ==
    IF account.tag = "Some"
    THEN IF hashed_address \in DOMAIN table
         THEN table
         ELSE MapPut(table, hashed_address, account.val)
    ELSE IF hashed_address \in DOMAIN table
         THEN MapRemove(table, hashed_address)
         ELSE table

\* One iteration of the loop over accounts_sorted().
AccountApplyOne(table, hashed_address, account) ==
    IF account.tag = "Some"
    THEN MapPut(table, hashed_address, account.val)
    ELSE IF hashed_address \in DOMAIN table
         THEN MapRemove(table, hashed_address)
         ELSE table

RECURSIVE AccountApplyAll(_, _, _)
AccountApplyAll(table, accounts, order) ==
    IF order = <<>> THEN table
    ELSE AccountApplyAll(
            AccountApplyOne(table, Head(order), accounts[Head(order)]),
            accounts, Tail(order))

\* The first loop of write_hashed_state: accounts in hashed-address order.
WriteHashedAccounts(table, accounts) ==
    AccountApplyAll(table, accounts, SortedSeq(DOMAIN accounts))

\* seek_by_key_subkey(address, slot): the first duplicate of `address` whose
\* data is not below the slot, or None.
SeekByKeySubkey(table, address, slot) ==
    LET later == {e \in table : e.addr = address /\ e.key >= slot}
    IN IF later = {} THEN None
       ELSE Some(CHOOSE e \in later : \A o \in later :
                    e.key < o.key \/ (e.key = o.key /\ e.value <= o.value))

\* Mutant of SlotApplyOne: the upsert without the is_zero test.
SlotApplyOneStoreZero(table, address, slot, value) ==
    LET found == SeekByKeySubkey(table, address, slot)
        deleted == IF found.tag = "Some" /\ found.val.key = slot
                   THEN table \ {found.val} ELSE table
    IN deleted \cup {[addr |-> address, key |-> slot, value |-> value]}

\* Mutant of SlotApplyOne: the entry the seek lands on is deleted without
\* comparing its slot key.
SlotApplyOneDeleteFound(table, address, slot, value) ==
    LET found == SeekByKeySubkey(table, address, slot)
        deleted == IF found.tag = "Some"
                   THEN table \ {found.val} ELSE table
    IN IF value # 0
       THEN deleted \cup {[addr |-> address, key |-> slot, value |-> value]}
       ELSE deleted

\* One iteration of the loop over storage_slots_sorted().
SlotApplyOne(table, address, slot, value) ==
    LET found == SeekByKeySubkey(table, address, slot)
        deleted == IF found.tag = "Some" /\ found.val.key = slot
                   THEN table \ {found.val} ELSE table
    IN IF value # 0
       THEN deleted \cup {[addr |-> address, key |-> slot, value |-> value]}
       ELSE deleted

RECURSIVE SlotApplyAll(_, _, _, _)
SlotApplyAll(table, address, slots, order) ==
    IF order = <<>> THEN table
    ELSE SlotApplyAll(
            SlotApplyOne(table, address, Head(order), slots[Head(order)]),
            address, slots, Tail(order))

\* The wipe: delete_current_duplicates after a successful seek_exact.
WipeStorage(table, address, storage) ==
    IF storage.wiped /\ (\E e \in table : e.addr = address)
    THEN {e \in table : e.addr # address}
    ELSE table

\* Mutant of StorageApplyOne: the wipe after the slot deltas.
StorageApplyOneWipeLast(table, address, storage) ==
    WipeStorage(SlotApplyAll(table, address, storage.storage,
                             SortedSeq(DOMAIN storage.storage)),
                address, storage)

\* One iteration of the loop over sorted_storages.
StorageApplyOne(table, address, storage) ==
    SlotApplyAll(WipeStorage(table, address, storage), address,
                 storage.storage, SortedSeq(DOMAIN storage.storage))

RECURSIVE StorageApplyAll(_, _, _)
StorageApplyAll(table, storages, order) ==
    IF order = <<>> THEN table
    ELSE StorageApplyAll(
            StorageApplyOne(table, Head(order), storages[Head(order)]),
            storages, Tail(order))

\* The second loop of write_hashed_state: storages in hashed-address order.
WriteHashedStorages(table, storages) ==
    StorageApplyAll(table, storages, SortedSeq(DOMAIN storages))

\* write_hashed_state(tx, hashed_state) on the tables of the transaction.
WriteHashedState(tx, hashed_state) ==
    [tx EXCEPT
        !.accounts = WriteHashedAccounts(tx.accounts, hashed_state.accounts),
        !.storages = WriteHashedStorages(tx.storages, hashed_state.storages)]

\* ------------------------------------------------------------------ state

VARIABLES
    db,         \* database_env: the committed tables
    db_tx,      \* the read transaction of execute: a snapshot of db
    rw_tx,      \* the write transaction of execute: None, or its tables
    pc,         \* where execute stands
    memory,     \* RethTx.memory: the HashedPostState overlay
    reads,      \* RethTx.reads: hashed keys noted by note_read
    ret,        \* what the last Transaction call returned (None: nothing)
    res,        \* result of overlay_root_with_updates (None before it ran)
    targets,    \* the targets handed to proof.multiproof
    proof,      \* "none", or the outcome of proof.multiproof: "ok" / "err"
    written,    \* history: per key, the last write of this transaction
    noted,      \* history: keys passed to note_read in this transaction
    committed,  \* history: per key, the last write that was committed
    call,       \* history: the last direct call of a table writer
    reader      \* a concurrent read transaction: None, or the tables it sees

vars == <<db, db_tx, rw_tx, pc, memory, reads, ret, res, targets, proof,
          written, noted, committed, call, reader>>

Unwritten == [tag |-> "Unwritten"]

\* The three tables the code touches.
EmptyTables == [accounts |-> EmptyMap, storages |-> {}, trie |-> EmptyMap]

\* HashedPostState::default()
EmptyPostState == [accounts |-> EmptyMap, storages |-> EmptyMap]

\* ------------------------------------------------------------------ RethTx

\* HashedCursor::seek(key): the first entry with a key >= key, or None.
CursorSeek(accounts, hashed_key) ==
    LET later == {h \in DOMAIN accounts : h >= hashed_key}
    IN IF later = {} THEN None
       ELSE LET h == CHOOSE x \in later : \A y \in later : x <= y
            IN Some([key |-> h, account |-> accounts[h]])

\* Mutant of ReadValue: the entry the seek lands on is returned without
\* comparing its key.
ReadValueNoKeyCheck(mem, persistent, key) ==
    LET hashed_key == keccak256(key)
        found == CursorSeek(persistent, hashed_key)
    IN IF hashed_key \in DOMAIN mem.accounts
          /\ mem.accounts[hashed_key].tag = "Some"
       THEN Some(BalanceLow8(mem.accounts[hashed_key].val.balance))
       ELSE IF found.tag = "Some"
            THEN Some(BalanceLow8(found.val.account.balance))
            ELSE None

\* RethTx::read: the overlay entry when it is Some(Some(acc)), else the
\* persistent cursor.
ReadValue(mem, persistent, key) ==
    LET hashed_key == keccak256(key)
        found == CursorSeek(persistent, hashed_key)
    IN IF hashed_key \in DOMAIN mem.accounts
          /\ mem.accounts[hashed_key].tag = "Some"
       THEN Some(BalanceLow8(mem.accounts[hashed_key].val.balance))
       ELSE IF found.tag = "Some" /\ found.val.key = hashed_key
            THEN Some(BalanceLow8(found.val.account.balance))
            ELSE None

\* RethTx::write: the overlay after the insert.
WriteValue(mem, key, value) ==
    [mem EXCEPT !.accounts =
        MapPut(mem.accounts, keccak256(key),
               IF value.tag = "Some"
               THEN Some(Account(from_be_slice(value.val)))
               ELSE None)]

\* Mutant of NoteReadSet: the set is replaced, earlier keys are lost.
NoteReadSetReplace(rs, key) == {keccak256(key)}

\* RethTx::note_read: the read set after the insert.
NoteReadSet(rs, key) == rs \cup {keccak256(key)}

OptValues == {None} \cup {Some(v) : v \in Values}

Read(k) ==
    /\ pc = "open"
    /\ ret' = [key |-> k, out |-> ReadValue(memory, db_tx.accounts, k)]
    /\ UNCHANGED <<db, db_tx, rw_tx, pc, memory, reads, res, targets, proof,
                   written, noted, committed, call, reader>>

\* Mutant of NoteRead: only a key read with a value is noted.
NoteReadOnlyPresent(k, v) ==
    /\ pc = "open"
    /\ reads' = (IF v.tag = "Some" THEN NoteReadSet(reads, k) ELSE reads)
    /\ noted' = noted \cup {k}
    /\ ret' = None
    /\ UNCHANGED <<db, db_tx, rw_tx, pc, memory, res, targets, proof,
                   written, committed, call, reader>>

NoteRead(k, v) ==
    /\ pc = "open"
    /\ reads' = NoteReadSet(reads, k)
    /\ noted' = noted \cup {k}
    /\ ret' = None
    /\ UNCHANGED <<db, db_tx, rw_tx, pc, memory, res, targets, proof,
                   written, committed, call, reader>>

\* Mutant of Write: the account is also put into the committed table.
WriteThrough(k, v) ==
    /\ pc = "open"
    /\ memory' = WriteValue(memory, k, v)
    /\ db' = [db EXCEPT !.accounts =
                AccountApplyOne(db.accounts, keccak256(k),
                                WriteValue(memory, k, v).accounts[keccak256(k)])]
    /\ written' = [written EXCEPT ![k] = v]
    /\ ret' = None
    /\ UNCHANGED <<db_tx, rw_tx, pc, reads, res, targets, proof,
                   noted, committed, call, reader>>

Write(k, v) ==
    /\ pc = "open"
    /\ memory' = WriteValue(memory, k, v)
    /\ written' = [written EXCEPT ![k] = v]
    /\ ret' = None
    /\ UNCHANGED <<db, db_tx, rw_tx, pc, reads, res, targets, proof,
                   noted, committed, call, reader>>

\* ----------------------------------------------------------- RethDB::execute

\* Mutant of Begin: the RethTx of the run before is used again, with its
\* overlay and its read set.
BeginKeepTransaction ==
    /\ pc \in {"idle", "proved"}
    /\ pc' = "open"
    /\ db_tx' = db
    /\ rw_tx' = None
    /\ ret' = None
    /\ res' = None
    /\ targets' = {}
    /\ proof' = "none"
    /\ written' = [k \in Keys |-> Unwritten]
    /\ noted' = {}
    /\ UNCHANGED <<db, memory, reads, committed, call, reader>>

\* Lines 121-130: the read transaction, the cursor and a fresh RethTx.
Begin ==
    /\ pc \in {"idle", "proved"}
    /\ pc' = "open"
    /\ db_tx' = db
    /\ rw_tx' = None
    /\ memory' = EmptyPostState
    /\ reads' = {}
    /\ ret' = None
    /\ res' = None
    /\ targets' = {}
    /\ proof' = "none"
    /\ written' = [k \in Keys |-> Unwritten]
    /\ noted' = {}
    /\ UNCHANGED <<db, committed, call, reader>>

\* The update sets overlay_root_with_updates reports in a run of execute:
\* the library's choice, here any update set over the one-nibble path.
EngineUpdateSets ==
    {tu \in TrieUpdateSets :
        /\ DOMAIN tu.account_nodes \subseteq {Path(1)}
        /\ tu.removed_nodes \subseteq {Path(1)}}

\* Line 136: StateRoot::overlay_root_with_updates over db_tx and the overlay.
ComputeRoot ==
    /\ pc = "open"
    /\ \E tu \in EngineUpdateSets : res' = Some([updates |-> tu])
    /\ pc' = "root_computed"
    /\ ret' = None
    /\ UNCHANGED <<db, db_tx, rw_tx, memory, reads, targets, proof,
                   written, noted, committed, call, reader>>

\* Line 136, Err: unwrap panics.
ComputeRootFails ==
    /\ pc = "open"
    /\ pc' = "aborted"
    /\ ret' = None
    /\ UNCHANGED <<db, db_tx, rw_tx, memory, reads, res, targets, proof,
                   written, noted, committed, call, reader>>

\* Mutant of WriteTrie: the trie nodes are written in a transaction of
\* their own, committed before the hashed state is written.
WriteTrieOwnCommit ==
    /\ pc = "root_computed"
    /\ db' = [db EXCEPT
            !.trie = WriteTrieUpdates(db.trie, res.val.updates).table]
    /\ rw_tx' = Some(db')
    /\ pc' = "trie_written"
    /\ UNCHANGED <<db_tx, memory, reads, ret, res, targets, proof,
                   written, noted, committed, call, reader>>

\* Lines 137-138: tx_mut() and write_trie_updates on it.
WriteTrie ==
    /\ pc = "root_computed"
    /\ rw_tx' = Some([db EXCEPT
            !.trie = WriteTrieUpdates(db.trie, res.val.updates).table])
    /\ pc' = "trie_written"
    /\ UNCHANGED <<db, db_tx, memory, reads, ret, res, targets, proof,
                   written, noted, committed, call, reader>>

\* Line 139: write_hashed_state with the overlay, sorted.
WriteHashed ==
    /\ pc = "trie_written"
    /\ rw_tx' = Some(WriteHashedState(rw_tx.val, memory))
    /\ pc' = "hashed_state_written"
    /\ UNCHANGED <<db, db_tx, memory, reads, ret, res, targets, proof,
                   written, noted, committed, call, reader>>

\* Line 140: commit.  The tables of the write transaction become the
\* committed tables in one step.
Commit ==
    /\ pc = "hashed_state_written"
    /\ db' = rw_tx.val
    /\ rw_tx' = None
    /\ pc' = "committed"
    /\ committed' = [k \in Keys |->
            IF written[k] = Unwritten THEN committed[k] ELSE written[k]]
    /\ UNCHANGED <<db_tx, memory, reads, ret, res, targets, proof,
                   written, noted, call, reader>>

\* Mutant of CommitFails: the failed commit is rolled back and the
\* transaction is open again.
CommitFailsRollsBack ==
    /\ pc = "hashed_state_written"
    /\ rw_tx' = None
    /\ pc' = "open"
    /\ UNCHANGED <<db, db_tx, memory, reads, ret, res, targets, proof,
                   written, noted, committed, call, reader>>

\* Line 140, Err: unwrap panics, nothing of the write transaction is kept.
CommitFails ==
    /\ pc = "hashed_state_written"
    /\ rw_tx' = None
    /\ pc' = "aborted"
    /\ UNCHANGED <<db, db_tx, memory, reads, ret, res, targets, proof,
                   written, noted, committed, call, reader>>

\* The targets built on line 145.
ProofTargets(rs) == {[key |-> k, slots |-> {}] : k \in rs}

\* Mutant of ProofView: the proof reads the transaction opened on line 121.
ProofViewStale(database, old_tx) == old_tx

\* The read view the Proof is built from (lines 142-143): a new snapshot.
ProofView(database, old_tx) == database

\* What execute does with the Result of multiproof (line 146): `let _ =`
\* drops it, the run goes on to its end either way.
AfterMultiproof(outcome) == "proved"

\* Lines 142-146: a new read transaction, the targets, the multiproof.
Prove ==
    /\ pc = "committed"
    /\ db_tx' = ProofView(db, db_tx)
    /\ targets' = ProofTargets(reads)
    /\ \E outcome \in {"ok", "err"} :
            /\ proof' = outcome
            /\ pc' = AfterMultiproof(outcome)
    /\ UNCHANGED <<db, rw_tx, memory, reads, ret, res,
                   written, noted, committed, call, reader>>

Init ==
    /\ db = EmptyTables
    /\ db_tx = EmptyTables
    /\ rw_tx = None
    /\ pc = "idle"
    /\ memory = EmptyPostState
    /\ reads = {}
    /\ ret = None
    /\ res = None
    /\ targets = {}
    /\ proof = "none"
    /\ written = [k \in Keys |-> Unwritten]
    /\ noted = {}
    /\ committed = [k \in Keys |-> Unwritten]
    /\ call = None
    /\ reader = None

Next ==
    \/ Begin
    \/ \E k \in Keys : Read(k)
    \/ \E k \in Keys, v \in OptValues : NoteRead(k, v)
    \/ \E k \in Keys, v \in OptValues : Write(k, v)
    \/ ComputeRoot
    \/ ComputeRootFails
    \/ WriteTrie
    \/ WriteHashed
    \/ Commit
    \/ CommitFails
    \/ Prove

Spec == Init /\ [][Next]_vars

\* ------------------------------------------------- a concurrent read view

\* What a read transaction opened with database_env.tx() (as on lines 121
\* and 142) sees: the committed tables, never the tables of a write
\* transaction that has not committed.
ReaderView(database, pending) == database

\* Another read transaction takes its view of the store.
ReaderOpen ==
    /\ reader = None
    /\ reader' = Some(ReaderView(db, rw_tx))
    /\ UNCHANGED <<db, db_tx, rw_tx, pc, memory, reads, ret, res, targets,
                   proof, written, noted, committed, call>>

\* The read transaction is dropped.
ReaderClose ==
    /\ reader # None
    /\ reader' = None
    /\ UNCHANGED <<db, db_tx, rw_tx, pc, memory, reads, ret, res, targets,
                   proof, written, noted, committed, call>>

\* execute with a reader that takes a view between any two of its steps.
\* A view is a snapshot: what it holds is fixed when it is taken, so it
\* is looked at and dropped before execute takes its next step.
NextReader ==
    \/ reader = None /\ Next
    \/ ReaderOpen
    \/ ReaderClose

SpecReader == Init /\ [][NextReader]_vars

\* ------------------------------------------- the table writers, called alone

\* The contents an AccountsTrie table may have when the database is opened.
TrieTables == UNION {[D -> Nodes] : D \in SUBSET Paths}

\* HashedStorageSorted: the wiped flag and the slot deltas of one account.
StorageDeltas ==
    {[wiped |-> w, storage |-> st] :
        w \in BOOLEAN, st \in UNION {[D -> SlotVals] : D \in SUBSET Slots}}

\* HashedPostStateSorted values handed to write_hashed_state alone: storage
\* deltas for any set of accounts.
StoragePostStates ==
    {[accounts |-> EmptyMap, storages |-> sts] :
        sts \in UNION {[D -> StorageDeltas] : D \in SUBSET StorageAddrs}}

\* write_trie_updates(&rw_tx, &trie_updates) on an open write transaction.
CallWriteTrieUpdates ==
    /\ pc = "writer"
    /\ call = None
    /\ \E tu \in TrieUpdateSets :
        LET r == WriteTrieUpdates(rw_tx.val.trie, tu)
        IN /\ rw_tx' = Some([rw_tx.val EXCEPT !.trie = r.table])
           /\ call' = Some([fn |-> "write_trie_updates", pre |-> rw_tx.val,
                            arg |-> tu, out |-> r.num_entries])
    /\ UNCHANGED <<db, db_tx, pc, memory, reads, ret, res, targets, proof,
                   written, noted, committed, reader>>

\* write_hashed_state(&rw_tx, &hashed_state) on an open write transaction.
CallWriteHashedState ==
    /\ pc = "writer"
    /\ call = None
    /\ \E hs \in StoragePostStates :
        /\ rw_tx' = Some(WriteHashedState(rw_tx.val, hs))
        /\ call' = Some([fn |-> "write_hashed_state", pre |-> rw_tx.val,
                         arg |-> hs, out |-> 0])
    /\ UNCHANGED <<db, db_tx, pc, memory, reads, ret, res, targets, proof,
                   written, noted, committed, reader>>

\* Hashed account keys of the account deltas handed to write_hashed_state
\* alone.
HashedAddrs == {1, 2, 3}

\* The account records write builds.
AccountRecords == {Account(from_be_slice(v)) : v \in Values}

\* HashedPostStateSorted values with account deltas only: a record or a
\* tombstone for any set of hashed keys.
AccountPostStates ==
    {[accounts |-> acc, storages |-> EmptyMap] :
        acc \in UNION {[D -> {None} \cup {Some(r) : r \in AccountRecords}] :
                        D \in SUBSET HashedAddrs}}

\* write_hashed_state(&rw_tx, &hashed_state) with account deltas.
CallWriteHashedStateAccounts ==
    /\ pc = "writer"
    /\ call = None
    /\ \E hs \in AccountPostStates :
        /\ rw_tx' = Some(WriteHashedState(rw_tx.val, hs))
        /\ call' = Some([fn |-> "write_hashed_state", pre |-> rw_tx.val,
                         arg |-> hs, out |-> 0])
    /\ UNCHANGED <<db, db_tx, pc, memory, reads, ret, res, targets, proof,
                   written, noted, committed, reader>>

\* The writer has returned; the caller goes on to its next call.
CallReturn ==
    /\ pc = "writer"
    /\ call # None
    /\ call' = None
    /\ UNCHANGED <<db, db_tx, rw_tx, pc, memory, reads, ret, res, targets,
                   proof, written, noted, committed, reader>>

\* A write transaction whose tables are `t`.  The writers read and write the
\* tables of the write transaction only; the committed tables play no part
\* in these specifications and stay empty.
InitWriter(t) ==
    /\ db = EmptyTables
    /\ db_tx = EmptyTables
    /\ rw_tx = Some(t)
    /\ pc = "writer"
    /\ memory = EmptyPostState
    /\ reads = {}
    /\ ret = None
    /\ res = None
    /\ targets = {}
    /\ proof = "none"
    /\ written = [k \in Keys |-> Unwritten]
    /\ noted = {}
    /\ committed = [k \in Keys |-> Unwritten]
    /\ call = None
    /\ reader = None

\* write_trie_updates on any AccountsTrie contents (RethDB::open without
\* reset opens the tables as earlier processes left them).
InitTrie == \E t \in TrieTables : InitWriter([EmptyTables EXCEPT !.trie = t])
NextTrie == CallWriteTrieUpdates \/ CallReturn
SpecTrie == InitTrie /\ [][NextTrie]_vars

\* write_hashed_state on a database opened empty.
InitHashed == InitWriter(EmptyTables)
NextHashed == CallWriteHashedState \/ CallReturn
SpecHashed == InitHashed /\ [][NextHashed]_vars

\* write_hashed_state with account deltas, on a database opened empty.
NextAccounts == CallWriteHashedStateAccounts \/ CallReturn
SpecAccounts == InitHashed /\ [][NextAccounts]_vars

\* ----------------------------------------------------------------- claims

\* The last Transaction call was a read (ret holds its key and result).
IsRead == "key" \in DOMAIN ret

\* A value buffer as an 8-byte big-endian number: the buffer's last 8 bytes,
\* left-padded with zero bytes when it is shorter.
Low8Of(v) ==
    [i \in 1..ReadBytes |->
        IF i + Len(v) - ReadBytes >= 1 THEN v[i + Len(v) - ReadBytes] ELSE 0]

\* The last direct call was write_hashed_state / write_trie_updates.
HashedCalled == call # None /\ call.val.fn = "write_hashed_state"
TrieCalled == call # None /\ call.val.fn = "write_trie_updates"

\* The committed HashedAccounts table holds, for every key, the last
\* committed write.
StoreHoldsCommitted ==
    \A k \in Keys :
        IF committed[k].tag = "Some"
        THEN /\ keccak256(k) \in DOMAIN db.accounts
             /\ db.accounts[keccak256(k)]
                    = Account(from_be_slice(committed[k].val))
        ELSE keccak256(k) \notin DOMAIN db.accounts

\* C1: a read of k whose last write in this transaction was a tombstone
\* returns "not found", whatever the committed store holds at hash(k).
C1_TombstoneReadsNotFound ==
    (IsRead /\ written[ret.key] = None) => ret.out = None

\* C2 as claimed: a read of k whose last write in this transaction was
\* write(k, v) returns exactly v.
C2_ReadReturnsWrittenBytes ==
    (IsRead /\ written[ret.key].tag = "Some")
        => ret.out = Some(written[ret.key].val)

\* C2 amended: a read of k whose last write in this transaction was
\* write(k, v) returns 8 bytes, the low 8 bytes of v as a big-endian number
\* (v itself exactly when v is 8 bytes long), whatever the committed store
\* holds at hash(k).
C2_ReadReturnsLow8OfWritten ==
    (IsRead /\ written[ret.key].tag = "Some")
        => /\ ret.out = Some(Low8Of(written[ret.key].val))
           /\ Len(ret.out.val) = ReadBytes
           /\ Len(written[ret.key].val) = ReadBytes
                => ret.out.val = written[ret.key].val

\* C2 witness: a value longer than 8 bytes was written over a committed
\* account of the same key and read back.
C2_Witness ==
    /\ IsRead
    /\ written[ret.key].tag = "Some"
    /\ Len(written[ret.key].val) > ReadBytes
    /\ keccak256(ret.key) \in DOMAIN db_tx.accounts
    /\ db_tx.accounts[keccak256(ret.key)].balance
            # from_be_slice(written[ret.key].val)

\* C3: the hashed-storage table never holds an entry with value zero, and
\* after write_hashed_state no entry is left at an (account, slot) whose
\* delta was zero.
C3_NoZeroSlotStored ==
    /\ \A e \in rw_tx.val.storages : e.value # 0
    /\ HashedCalled =>
        \A a \in DOMAIN call.val.arg.storages :
            \A sl \in DOMAIN call.val.arg.storages[a].storage :
                call.val.arg.storages[a].storage[sl] = 0
                    => ~ \E e \in rw_tx.val.storages :
                            e.addr = a /\ e.key = sl

\* C3 witness: a zero delta, without a wipe, on a slot that was stored.
C3_Witness ==
    /\ HashedCalled
    /\ \E a \in DOMAIN call.val.arg.storages :
        /\ ~ call.val.arg.storages[a].wiped
        /\ \E sl \in DOMAIN call.val.arg.storages[a].storage :
            /\ call.val.arg.storages[a].storage[sl] = 0
            /\ \E e \in call.val.pre.storages : e.addr = a /\ e.key = sl

\* The entries a storage delta leaves for account a: its non-zero slots.
NonZeroSlots(a, storage) ==
    {[addr |-> a, key |-> sl, value |-> storage.storage[sl]] :
        sl \in {x \in DOMAIN storage.storage : storage.storage[x] # 0}}

\* C4: after write_hashed_state, the stored slots of an account whose delta
\* is marked wiped are exactly the non-zero slots of the delta.
C4_WipeThenWrite ==
    HashedCalled =>
        \A a \in DOMAIN call.val.arg.storages :
            call.val.arg.storages[a].wiped
                => {e \in rw_tx.val.storages : e.addr = a}
                        = NonZeroSlots(a, call.val.arg.storages[a])

\* C4 witness: the account had two slots stored, the wiped delta rewrites
\* one of them with another value, and only that one is stored afterwards.
C4_Witness ==
    /\ HashedCalled
    /\ \E a \in DOMAIN call.val.arg.storages :
        /\ call.val.arg.storages[a].wiped
        /\ DOMAIN call.val.arg.storages[a].storage = {1}
        /\ call.val.arg.storages[a].storage[1] = 2
        /\ {e \in call.val.pre.storages : e.addr = a}
                = {[addr |-> a, key |-> 1, value |-> 1],
                   [addr |-> a, key |-> 2, value |-> 2]}
        /\ {e \in rw_tx.val.storages : e.addr = a}
                = {[addr |-> a, key |-> 1, value |-> 2]}

\* The paths present in both `updated` and `removed` of the last call.
BothUpdatedAndRemoved ==
    DOMAIN call.val.arg.account_nodes \cap call.val.arg.removed_nodes

\* C5 as claimed: after write_trie_updates every path present in both
\* `updated` and `removed` holds the node given in `updated`.
C5_UpdatedWinsEveryPath ==
    TrieCalled =>
        \A k \in BothUpdatedAndRemoved :
            /\ k \in DOMAIN rw_tx.val.trie
            /\ rw_tx.val.trie[k] = call.val.arg.account_nodes[k]

\* C5 amended: after write_trie_updates every non-empty path present in
\* both `updated` and `removed` holds the node given in `updated`; the
\* empty path, when in both, is neither upserted nor deleted: the table
\* holds at it what it held before.
C5_UpdatedWinsNonEmptyPath ==
    TrieCalled =>
        \A k \in BothUpdatedAndRemoved :
            IF k # <<>>
            THEN /\ k \in DOMAIN rw_tx.val.trie
                 /\ rw_tx.val.trie[k] = call.val.arg.account_nodes[k]
            ELSE /\ (k \in DOMAIN rw_tx.val.trie)
                        <=> (k \in DOMAIN call.val.pre.trie)
                 /\ k \in DOMAIN rw_tx.val.trie
                        => rw_tx.val.trie[k] = call.val.pre.trie[k]

\* C5 witness: a non-empty path in both sets whose stored node was another
\* one, and the empty path in both sets with a node stored at it.
C5_Witness ==
    /\ TrieCalled
    /\ \E k \in BothUpdatedAndRemoved :
        /\ k # <<>>
        /\ k \in DOMAIN call.val.pre.trie
        /\ call.val.pre.trie[k] # call.val.arg.account_nodes[k]
    /\ <<>> \in BothUpdatedAndRemoved
    /\ <<>> \in DOMAIN call.val.pre.trie
    /\ call.val.pre.trie[<<>>] # call.val.arg.account_nodes[<<>>]

\* C6: the targets of the multiproof are exactly the hashes of the keys
\* passed to note_read in this transaction, each with an empty slot set.
C6_TargetsAreNotedKeys ==
    pc = "proved"
        => targets = {[key |-> keccak256(k), slots |-> {}] : k \in noted}

\* C6 witness: one key was noted and never written, the other written and
\* never noted; the proof was made.
C6_Witness ==
    /\ pc = "proved"
    /\ \E k \in noted : written[k] = Unwritten
    /\ \E k \in Keys \ noted : written[k] # Unwritten
    /\ targets # {}

\* A read in a transaction that has written nothing yet.
FreshRead == IsRead /\ \A k \in Keys : written[k] = Unwritten

C7_WitnessTombstone ==
    /\ FreshRead
    /\ committed[ret.key] = None
    /\ \E h \in DOMAIN db_tx.accounts : h > keccak256(ret.key)

C8_StoreChangesOnlyAtCommit ==
    [][/\ (pc = "open" /\ pc' = "open") => db' = db
       /\ db' # db => (pc = "hashed_state_written" /\ pc' = "committed")]_vars

\* C8 witness: in an open transaction over a non-empty store, keys were
\* written and noted and a read has just returned.
C8_Witness ==
    /\ pc = "open"
    /\ IsRead
    /\ DOMAIN memory.accounts # {}
    /\ reads # {}
    /\ DOMAIN db.accounts # {}
    /\ db.trie # EmptyMap

\* The steps of execute, in order.
StageSteps ==
    {<<"idle", "open">>, <<"proved", "open">>,
     <<"open", "root_computed">>, <<"root_computed", "trie_written">>,
     <<"trie_written", "hashed_state_written">>,
     <<"hashed_state_written", "committed">>, <<"committed", "proved">>,
     <<"open", "aborted">>, <<"hashed_state_written", "aborted">>}

\* C9: execute goes OPEN, ROOT-COMPUTED, (trie written), HASHED-STATE-
\* WRITTEN, COMMITTED, PROVED, one step at a time or stops in a panic; the
\* root is computed before the write transaction exists, the trie updates
\* are written before the hashed state, the committed tables change only at
\* the commit, to the tables of the write transaction, and the multiproof
\* is made after the commit from a view equal to the committed tables.
C9_StageOrder ==
    /\ [][/\ pc' # pc => <<pc, pc'>> \in StageSteps
          /\ db' # db => (pc = "hashed_state_written" /\ pc' = "committed"
                          /\ db' = rw_tx.val)
          /\ proof' # proof
                => (pc' = "open" \/ (pc = "committed" /\ pc' = "proved"))]_vars
    /\ [](pc \in {"idle", "open", "root_computed"} => rw_tx = None)
    /\ [](pc \in {"root_computed", "trie_written", "hashed_state_written",
                  "committed", "proved"} => res # None)
    /\ [](pc = "trie_written" =>
            /\ rw_tx.val.accounts = db.accounts
            /\ rw_tx.val.storages = db.storages
            /\ rw_tx.val.trie
                = WriteTrieUpdates(db.trie, res.val.updates).table)
    /\ [](pc = "hashed_state_written" =>
            rw_tx.val.accounts = WriteHashedAccounts(db.accounts,
                                                     memory.accounts))
    /\ [](pc = "proved" => (proof # "none" /\ db_tx = db
                            /\ StoreHoldsCommitted))

\* C9 witness: a run that changed both tables has reached PROVED.
C9_Witness ==
    /\ pc = "proved"
    /\ \E k \in Keys : written[k].tag = "Some"
    /\ DOMAIN res.val.updates.account_nodes # {}
    /\ db.trie # EmptyMap
    /\ DOMAIN db.accounts # {}

\* C10: when the multiproof fails after the commit, the run ends in a
\* fatal error, and the committed tables keep the committed writes.
C10_ProofFailureIsFatal ==
    proof = "err" => (pc = "aborted" /\ StoreHoldsCommitted)

\* ----------------------------------------------------------- C11 .. C20

\* A step of execute after the workload step: the next call of lines
\* 136-146, returning Ok or Err.
Advance ==
    \/ ComputeRoot
    \/ ComputeRootFails
    \/ WriteTrie
    \/ WriteHashed
    \/ Commit
    \/ CommitFails
    \/ Prove

\* execute is one thread of synchronous calls: the workload step returns,
\* and each following call is made as soon as the one before it has
\* returned, and returns.
Fairness == WF_vars(Advance)

SpecLive == Init /\ [][Next]_vars /\ Fairness

\* The stages of a run between its start and its end.
Running ==
    {"open", "root_computed", "trie_written", "hashed_state_written",
     "committed"}

\* C11: a run whose workload step returns reaches PROVED or a fatal abort
\* from every one of OPEN, ROOT-COMPUTED, HASHED-STATE-WRITTEN and COMMITTED,
\* and the only steps out of those stages are the step to the next stage
\* and the abort: none goes back, to idle or to an earlier stage.
C11_RunsToProvedOrAbort ==
    /\ (pc \in Running) ~> (pc \in {"proved", "aborted"})
    /\ [][(pc \in Running /\ pc' # pc)
            => /\ <<pc, pc'>> \in StageSteps
               /\ pc' \in (Running \cup {"proved", "aborted"}) \ {"open"}]_vars

\* C11 witness: a run that wrote and noted keys has ended with its proof.
C11_Witness ==
    /\ pc = "proved"
    /\ proof = "ok"
    /\ noted # {}
    /\ \E k \in Keys : written[k] = None

\* ---------------------------------------------------------------- C12

\* The store with every change of the run applied to the tables the run
\* began from: the trie updates of the root computation and the overlay.
AllOfRun ==
    WriteHashedState(
        [db_tx EXCEPT !.trie = WriteTrieUpdates(db_tx.trie,
                                                res.val.updates).table],
        memory)

\* Every change of the run is in the tables `view`.
AllVisible(view) ==
    /\ \A h \in DOMAIN memory.accounts :
            IF memory.accounts[h].tag = "Some"
            THEN h \in DOMAIN view.accounts
                 /\ view.accounts[h] = memory.accounts[h].val
            ELSE h \notin DOMAIN view.accounts
    /\ \A e \in MergedEntries(res.val.updates) :
            IF e.node.tag = "Some"
            THEN e.key = <<>> \/ (e.key \in DOMAIN view.trie
                                  /\ view.trie[e.key] = e.node.val)
            ELSE e.key \notin DOMAIN view.trie

\* C12: a view of the store taken at any point of a run of execute holds
\* none of the run's changes (it is the store the run began from) while
\* the run has not committed, and all of them, trie nodes and hashed state
\* together, once it has.
C12_ReaderSeesNoneOrAll ==
    reader # None =>
        /\ pc \in {"open", "root_computed", "trie_written",
                    "hashed_state_written", "aborted"}
                => reader.val = db_tx
        /\ pc = "committed" => reader.val = AllOfRun
        /\ pc = "proved" => AllVisible(reader.val)

\* A view taken while the write transaction holds trie nodes and accounts
\* that are not committed.
C12_Witness ==
    /\ reader # None
    /\ pc = "hashed_state_written"
    /\ rw_tx.val.trie # db.trie
    /\ rw_tx.val.accounts # db.accounts

\* A view taken after the commit of a run that changed both tables.
C12_WitnessAll ==
    /\ reader # None
    /\ pc = "committed"
    /\ reader.val.trie # db_tx.trie
    /\ reader.val.accounts # db_tx.accounts

\* ---------------------------------------------------------------- C13

\* C13: after write_hashed_state, every hashed key whose delta carries a
\* record holds exactly that record, every hashed key whose delta is a
\* tombstone is absent, and every other hashed key holds what it held
\* before the call.
C13_AccountDeltasApplied ==
    HashedCalled =>
        LET pre == call.val.pre.accounts
            delta == call.val.arg.accounts
            post == rw_tx.val.accounts
        IN \A h \in DOMAIN pre \cup DOMAIN delta \cup DOMAIN post :
            IF h \in DOMAIN delta
            THEN IF delta[h].tag = "Some"
                 THEN h \in DOMAIN post /\ post[h] = delta[h].val
                 ELSE h \notin DOMAIN post
            ELSE /\ (h \in DOMAIN pre) = (h \in DOMAIN post)
                 /\ h \in DOMAIN pre => post[h] = pre[h]

\* One call that overwrites a stored record with another, deletes a stored
\* record by a tombstone and leaves a third stored record alone.
C13_Witness ==
    /\ HashedCalled
    /\ LET pre == call.val.pre.accounts
           delta == call.val.arg.accounts
       IN \E h1, h2, h3 \in DOMAIN pre :
            /\ h1 \in DOMAIN delta /\ delta[h1].tag = "Some"
            /\ delta[h1].val # pre[h1]
            /\ h2 \in DOMAIN delta /\ delta[h2] = None
            /\ h3 \notin DOMAIN delta

\* A tombstone for a key that is not stored.
C13_WitnessMissing ==
    /\ HashedCalled
    /\ \E h \in DOMAIN call.val.arg.accounts :
            /\ call.val.arg.accounts[h] = None
            /\ h \notin DOMAIN call.val.pre.accounts
            /\ call.val.pre.accounts # EmptyMap

\* ---------------------------------------------------------------- C14

\* The stored slot entries a call of write_hashed_state has no delta for:
\* those of accounts without a storage delta, and those of accounts that
\* are not wiped at slots the delta does not name.
Unnamed(e, storages) ==
    \/ e.addr \notin DOMAIN storages
    \/ /\ ~storages[e.addr].wiped
       /\ e.key \notin DOMAIN storages[e.addr].storage

\* C14: write_hashed_state leaves every slot entry it has no delta for as
\* it was: no such entry is deleted, in particular not the entry at a
\* later slot that the seek for an absent slot lands on, and none is added.
C14_SlotDeltaTouchesOnlyItsSlot ==
    HashedCalled =>
        \A e \in call.val.pre.storages \cup rw_tx.val.storages :
            Unnamed(e, call.val.arg.storages)
                => (e \in call.val.pre.storages) = (e \in rw_tx.val.storages)

\* A delta for slot S of an account that is not wiped, where nothing is
\* stored at S and the seek lands on a later slot the delta does not name.
C14_Witness ==
    /\ HashedCalled
    /\ \E a \in DOMAIN call.val.arg.storages, s \in Slots :
        LET delta == call.val.arg.storages[a]
            found == SeekByKeySubkey(call.val.pre.storages, a, s)
        IN /\ ~delta.wiped
           /\ s \in DOMAIN delta.storage
           /\ found.tag = "Some"
           /\ found.val.key > s
           /\ found.val.key \notin DOMAIN delta.storage
           /\ found.val \in rw_tx.val.storages

\* ---------------------------------------------------------------- C15

\* C15: after write_trie_updates, an update entry at the empty path has
\* left the table at the empty path as it was (no node stored or replaced
\* there), and a removal of the empty path that is not also an update has
\* left no node at the empty path.
C15_EmptyPathNeverUpserted ==
    TrieCalled =>
        LET pre == call.val.pre.trie
            post == rw_tx.val.trie
            tu == call.val.arg
        IN /\ <<>> \in DOMAIN tu.account_nodes
                => /\ (<<>> \in DOMAIN post) = (<<>> \in DOMAIN pre)
                   /\ <<>> \in DOMAIN pre => post[<<>>] = pre[<<>>]
           /\ (<<>> \in tu.removed_nodes
                /\ <<>> \notin DOMAIN tu.account_nodes)
                => <<>> \notin DOMAIN post

\* An update at the empty path carrying another node than the one stored
\* there, together with an update at a non-empty path that is upserted.
C15_Witness ==
    /\ TrieCalled
    /\ <<>> \in DOMAIN call.val.arg.account_nodes
    /\ <<>> \in DOMAIN call.val.pre.trie
    /\ call.val.arg.account_nodes[<<>>] # call.val.pre.trie[<<>>]
    /\ rw_tx.val.trie[<<>>] = call.val.pre.trie[<<>>]
    /\ rw_tx.val.trie # call.val.pre.trie

\* A removal of the empty path that deletes the node stored there.
C15_WitnessRemoval ==
    /\ TrieCalled
    /\ <<>> \in call.val.arg.removed_nodes
    /\ <<>> \notin DOMAIN call.val.arg.account_nodes
    /\ <<>> \in DOMAIN call.val.pre.trie
    /\ <<>> \notin DOMAIN rw_tx.val.trie

\* ---------------------------------------------------------------- C16

C16_WitnessEmpty ==
    /\ TrieCalled
    /\ call.val.arg.account_nodes = EmptyMap
    /\ call.val.arg.removed_nodes = {}
    /\ call.val.pre.trie # EmptyMap

\* ---------------------------------------------------------------- C17

\* The last call was a read of a key the overlay has no entry for.
ReadThrough == IsRead /\ keccak256(ret.key) \notin DOMAIN memory.accounts

C17_WitnessFound ==
    /\ ReadThrough
    /\ keccak256(ret.key) \in DOMAIN db_tx.accounts
    /\ ret.out = Some(Bytes(ReadBytes, 1))
    /\ committed[ret.key] = Some(Bytes(MaxValueLen, 1))

\* ---------------------------------------------------------------- C18

\* C18: while the transaction is open, note_read can be called with any
\* key and any value, present or absent, and the ReadSet is the set of the
\* hashes of the keys noted so far; a note_read step puts hash(k) into the
\* ReadSet, leaves a ReadSet that already holds hash(k) as it is and
\* leaves the overlay as it is; read and write steps leave the ReadSet as
\* it is.
C18_NoteReadOnlyAddsHash ==
    /\ [](pc = "open" =>
            /\ reads = {keccak256(k) : k \in noted}
            /\ \A k \in Keys, v \in OptValues : ENABLED NoteRead(k, v))
    /\ [][\A k \in Keys, v \in OptValues :
            (pc = "open" /\ NoteRead(k, v)) =>
                /\ keccak256(k) \in reads'
                /\ reads \subseteq reads'
                /\ keccak256(k) \in reads => reads' = reads
                /\ memory' = memory]_vars
    /\ [][reads' = reads
            \/ ~ \/ \E k \in Keys : Read(k)
                 \/ \E k \in Keys, v \in OptValues : Write(k, v)]_vars

\* Both keys noted, one of them written, then a read: the ReadSet holds
\* both hashes.
C18_Witness ==
    /\ pc = "open"
    /\ IsRead
    /\ noted = Keys
    /\ reads = {keccak256(k) : k \in Keys}
    /\ Cardinality(DOMAIN memory.accounts) = 1

\* ---------------------------------------------------------------- C19

\* Every order of the elements of a finite set.
RECURSIVE Orders(_)
Orders(S) ==
    IF S = {} THEN {<<>>}
    ELSE UNION {{<<x>> \o o : o \in Orders(S \ {x})} : x \in S}

\* C19: the merged entries of a call of write_trie_updates hold every path
\* at most once, and applying them to the table the call found in any
\* order gives the table the call left.
C19_MergedKeysUniqueAnyOrder ==
    TrieCalled =>
        LET es == MergedEntries(call.val.arg)
        IN /\ \A e1, e2 \in es : e1.key = e2.key => e1 = e2
           /\ \A o \in Orders(es) :
                TrieApplyAll([table |-> call.val.pre.trie, num_entries |-> 0],
                             o).table = rw_tx.val.trie

\* A call whose update set names one path as removed and as updated, and
\* whose merged entries hold a removal and an update that both change the
\* table.
C19_Witness ==
    /\ TrieCalled
    /\ call.val.arg.removed_nodes \cap DOMAIN call.val.arg.account_nodes # {}
    /\ \E r \in RemovedEntries(call.val.arg) :
            r.key \in DOMAIN call.val.pre.trie
    /\ \E u \in UpdatedEntries(call.val.arg) :
            /\ u.key \in DOMAIN rw_tx.val.trie
            /\ u.key \notin DOMAIN call.val.pre.trie

\* ---------------------------------------------------------------- C20

\* The hashed account keys at which two account tables differ.
AccountsChanged(before, after) ==
    {h \in DOMAIN before \cup DOMAIN after :
        \/ (h \in DOMAIN before) # (h \in DOMAIN after)
        \/ h \in DOMAIN before /\ h \in DOMAIN after /\ before[h] # after[h]}

\* The hashes of the keys written / noted in the current run.
WrittenInRun == {keccak256(k) : k \in {x \in Keys : written[x] # Unwritten}}
NotedInRun == {keccak256(k) : k \in noted}

\* C20: a run of execute begins with an empty overlay and an empty
\* ReadSet; in every state of a run the overlay holds the keys written in
\* this run and the ReadSet the keys noted in this run, the account deltas
\* the run writes and commits are at keys written in this run, and the
\* proof targets are keys noted in this run.
C20_RunUsesOnlyItsOwnKeys ==
    /\ [][(pc # "open" /\ pc' = "open")
            => memory' = EmptyPostState /\ reads' = {}]_vars
    /\ [](pc \in Running \cup {"proved"} =>
            /\ DOMAIN memory.accounts = WrittenInRun
            /\ DOMAIN memory.storages = {}
            /\ reads = NotedInRun
            /\ pc = "hashed_state_written" =>
                    AccountsChanged(db.accounts, rw_tx.val.accounts)
                        \subseteq WrittenInRun
            /\ pc = "committed" =>
                    AccountsChanged(db_tx.accounts, db.accounts)
                        \subseteq WrittenInRun
            /\ pc = "proved" => {t.key : t \in targets} \subseteq NotedInRun)

\* A later run has ended that wrote and noted one key only, while the
\* other key was written and committed by an earlier run.
C20_Witness ==
    /\ pc = "proved"
    /\ \E k1, k2 \in Keys :
        /\ committed[k1].tag = "Some"
        /\ written[k1] = Unwritten
        /\ k1 \notin noted
        /\ written[k2] # Unwritten
        /\ noted = {k2}
        /\ targets = ProofTargets({keccak256(k2)})
        /\ keccak256(k1) \in DOMAIN db.accounts

====
